---- MODULE Spec2Model ----
(***************************************************************************)
(* Model of the ingestion pipeline of src/scraper.py: the feed fetcher     *)
(* (fetch_recent_articles) with its DOI extractor, abstract resolver and   *)
(* topic classifier, and the archive merge of the __main__ block.          *)
(*                                                                         *)
(* Python strings are TLA+ strings, handled character by character with    *)
(* Len, SubSeq and \o.  A value that may be missing (an attribute of a     *)
(* feed entry, the result of fetch_full_abstract, a NaN cell of a          *)
(* DataFrame) is a tuple: <<>> when missing, <<v>> when present.           *)
(*                                                                         *)
(* Time is counted in ticks, TicksPerDay ticks to the calendar day; a      *)
(* "%Y-%m-%d" date string is modelled by its day number, which orders as   *)
(* the strings do (four-digit years, zero-padded month and day).  Both     *)
(* datetime.now() and the entry's published_parsed are read on the same    *)
(* naive wall clock, as the code does.                                     *)
(***************************************************************************)
EXTENDS Integers, Sequences, FiniteSets, TLC

VARIABLES
    now,        \* datetime.now() at the start of the current fetch cycle
    cycle,      \* number of the current run of the script
    pc,         \* position of the script: start, feed, entries, handle, main, done
    src,        \* index in the registry of the source being processed
    nEntries,   \* entries delivered by the feeds in this cycle
    cutoff,     \* cutoff_date of fetch_recent_articles
    entry,      \* <<e>>: the feed entry delivered by the entries loop, being handled
    outcome,    \* what handling the last entry did: none, skip, record, raise
    failed,     \* sources whose processing raised in this cycle
    batch,      \* articles_data
    archive,    \* io_psych_articles.csv: [exists, rows]
    before,     \* the archive as it was when the merge step began
    page,       \* the article page served to fetch_full_abstract (single-entry runs)
    doi,        \* <<d>>: result of extract_doi (single-call runs)
    fallback    \* what the fallback scraper did for the entry (single-entry runs)

vars == <<now, cycle, pc, src, nEntries, cutoff, entry, outcome, failed,
          batch, archive, before, page, doi, fallback>>

-----------------------------------------------------------------------------
(* Bounds of the model. *)

\* runs of the script
MaxCycles == 2
\* entries delivered by all feeds together in one run
MaxEntries == 2
\* clock resolution: ticks in one calendar day
TicksPerDay == 2

(* Constants of the program. *)

\* days_back
DaysBack == 90
\* len(abstract) < 200
AbstractMinLen == 200
\* len(tag.get('content')) > 100
MetaMinLen == 100
\* \d{4,9}
DoiMinDigits == 4
DoiMaxDigits == 9

-----------------------------------------------------------------------------
(* Optional values and Python string primitives. *)

None == <<>>
Some(v) == <<v>>

Max(a, b) == IF a >= b THEN a ELSE b
Min(a, b) == IF a <= b THEN a ELSE b

\* s[i-1:j] in Python's positions: out-of-range positions are cut off
Slice(s, i, j) == SubSeq(s, Max(i, 1), Min(j, Len(s)))

Char(s, i) == Slice(s, i, i)

RECURSIVE Rep(_, _)
\* s * n
Rep(s, n) ==
    IF n <= 0 THEN "" ELSE IF n = 1 THEN s ELSE Rep(s, n \div 2) \o Rep(s, n - n \div 2)

\* sub in s
Contains(s, sub) ==
    \E i \in 1..(Len(s) - Len(sub) + 1) : SubSeq(s, i, i + Len(sub) - 1) = sub

RECURSIVE Replace(_, _)
\* s.replace(old, ''): every non-overlapping occurrence, left to right
Replace(s, old) ==
    IF Len(s) < Len(old) \/ Len(old) = 0 THEN s
    ELSE IF SubSeq(s, 1, Len(old)) = old
         THEN Replace(SubSeq(s, Len(old) + 1, Len(s)), old)
         ELSE Char(s, 1) \o Replace(SubSeq(s, 2, Len(s)), old)

Whitespace == {" ", "\t", "\n", "\r"}

\* the positions of s whose character is not in cs
Outside(s, cs) == {i \in 1..Len(s) : Char(s, i) \notin cs}

\* s.lstrip(chars)
LStripSet(s, cs) ==
    IF Outside(s, cs) = {} THEN ""
    ELSE SubSeq(s, CHOOSE i \in Outside(s, cs) : \A j \in Outside(s, cs) : i <= j, Len(s))

\* s.rstrip(chars)
RStripSet(s, cs) ==
    IF Outside(s, cs) = {} THEN ""
    ELSE SubSeq(s, 1, CHOOSE i \in Outside(s, cs) : \A j \in Outside(s, cs) : j <= i)

\* s.strip()
Strip(s) == RStripSet(LStripSet(s, Whitespace), Whitespace)

UpperCase == <<"A","B","C","D","E","F","G","H","I","J","K","L","M",
               "N","O","P","Q","R","S","T","U","V","W","X","Y","Z">>
LowerCase == <<"a","b","c","d","e","f","g","h","i","j","k","l","m",
               "n","o","p","q","r","s","t","u","v","w","x","y","z">>
Digits == {"0","1","2","3","4","5","6","7","8","9"}
Letters == {UpperCase[i] : i \in 1..26} \cup {LowerCase[i] : i \in 1..26}

LowerChar(c) ==
    IF \E i \in 1..26 : UpperCase[i] = c
    THEN LowerCase[CHOOSE i \in 1..26 : UpperCase[i] = c] ELSE c

RECURSIVE Lower(_)
\* s.lower()
Lower(s) ==
    IF Len(s) = 0 THEN ""
    ELSE IF Len(s) = 1 THEN LowerChar(s)
    ELSE Lower(SubSeq(s, 1, Len(s) \div 2)) \o Lower(SubSeq(s, Len(s) \div 2 + 1, Len(s)))

RECURSIVE Join(_, _)
\* sep.join(parts)
Join(parts, sep) ==
    IF Len(parts) = 0 THEN ""
    ELSE IF Len(parts) = 1 THEN parts[1]
    ELSE parts[1] \o sep \o Join(Tail(parts), sep)

-----------------------------------------------------------------------------
(* Topic tagging.  The table keeps three of the topics of TOPIC_KEYWORDS,  *)
(* in their declaration order, with their keyword lists.                   *)

TopicOrder == <<"Leadership", "Teams", "Turnover/Burnout">>

TOPIC_KEYWORDS ==
    ("Leadership" :> <<"leadership", "leader", "manager", "supervisor",
                       "transformational", "lmd">>) @@
    ("Teams" :> <<"team", "group", "teamwork", "collaboration", "shared leadership">>) @@
    ("Turnover/Burnout" :> <<"turnover", "burnout", "quitting", "exhaustion",
                             "retention", "attrition", "stress">>)

assign_topics(title, abstract) ==
    LET text_to_search == Lower(title \o " " \o abstract)
        Matches(topic) ==
            \E k \in 1..Len(TOPIC_KEYWORDS[topic]) :
                Contains(text_to_search, Lower(TOPIC_KEYWORDS[topic][k]))
        found_topics == SelectSeq(TopicOrder, Matches)
    IN  IF found_topics # <<>> THEN Join(found_topics, ", ") ELSE "Uncategorized"

-----------------------------------------------------------------------------
(* DOI extraction. *)

DoiChars == Digits \cup Letters \cup {"-", ".", "_", ";", "(", ")", "/", ":"}

\* number of characters of s from position i on that belong to cs, up to the first that does not
Run(s, i, cs) ==
    LET stops == {j \in i..Len(s) : Char(s, j) \notin cs}
    IN  IF stops = {} THEN Max(Len(s) - i + 1, 0)
        ELSE (CHOOSE j \in stops : \A k \in stops : j <= k) - i

\* the end of the match of 10\.\d{4,9}/[-._;()/:a-zA-Z0-9]+ starting at i, or 0
DoiMatchEnd(s, i) ==
    IF Slice(s, i, i + 2) # "10." THEN 0
    ELSE LET ks == {k \in DoiMinDigits..DoiMaxDigits :
                        /\ Run(s, i + 3, Digits) >= k
                        /\ Char(s, i + 3 + k) = "/"
                        /\ Run(s, i + 4 + k, DoiChars) >= 1}
         IN  IF ks = {} THEN 0
             ELSE LET k == CHOOSE x \in ks : \A y \in ks : y <= x
                  IN  i + 3 + k + Run(s, i + 4 + k, DoiChars)

\* re.search(...): the leftmost match, as <<group(1)>>, or None
DoiSearch(s) ==
    LET starts == {i \in 1..Len(s) : DoiMatchEnd(s, i) # 0}
    IN  IF starts = {} THEN None
        ELSE LET i == CHOOSE x \in starts : \A y \in starts : x <= y
             IN  Some(SubSeq(s, i, DoiMatchEnd(s, i)))

\* entry.get(key, '')
GetOr(field, default) == IF field = None THEN default ELSE field[1]

extract_doi(e) ==
    IF e.prism_doi # None THEN e.prism_doi[1]
    ELSE IF e.dc_identifier # None /\ Contains(e.dc_identifier[1], "10.")
    THEN Replace(Replace(e.dc_identifier[1], "doi:"), "urn:doi:")
    ELSE LET search_string == GetOr(e.link, "") \o " " \o GetOr(e.id, "")
             match == DoiSearch(search_string)
         IN  IF match # None THEN RStripSet(match[1], {"/"}) ELSE "DOI Not Found"

-----------------------------------------------------------------------------
(* Abstract resolution.  A page is what requests.get and BeautifulSoup     *)
(* give for an article URL: status is "200", another status code, or       *)
(* "exception" when the request or the parse raises; meta holds the        *)
(* content attribute of the citation_abstract, dc.description,             *)
(* og:description and description meta tags, in that order (None: no such  *)
(* tag, or a tag without content); div holds the text of the first div,    *)
(* section or p element whose class contains "abstract" (None: no such     *)
(* element).                                                               *)

PLACEHOLDER == "Abstract could not be scraped. Please visit the article link."
NO_ABSTRACT == "No abstract available"

MetaPasses(content) == content # None /\ content[1] # "" /\ Len(content[1]) > MetaMinLen

\* the meta tags read from the last to the first
fetch_full_abstract_reversed(pg) ==
    IF pg.status = "exception" THEN None
    ELSE IF pg.status = "200"
    THEN LET passing == {i \in 1..Len(pg.meta) : MetaPasses(pg.meta[i])}
         IN  IF passing # {}
             THEN Some(Strip(pg.meta[CHOOSE i \in passing : \A j \in passing : j <= i][1]))
             ELSE IF pg.div # None THEN Some(Strip(pg.div[1])) ELSE None
    ELSE None

fetch_full_abstract(pg) ==
    IF pg.status = "exception" THEN None
    ELSE IF pg.status = "200"
    THEN LET passing == {i \in 1..Len(pg.meta) : MetaPasses(pg.meta[i])}
         IN  IF passing # {}
             THEN Some(Strip(pg.meta[CHOOSE i \in passing : \A j \in passing : i <= j][1]))
             ELSE IF pg.div # None THEN Some(Strip(pg.div[1])) ELSE None
    ELSE None

\* len(abstract) <= 200 in the condition of the fallback scraper
InsufficientInclusive(abstract) ==
    \/ Len(abstract) <= AbstractMinLen
    \/ Contains(abstract, "Volume")
    \/ Contains(abstract, "Issue")
    \/ Contains(abstract, "EarlyView")
    \/ abstract = NO_ABSTRACT

\* the condition of the fallback scraper
Insufficient(abstract) ==
    \/ Len(abstract) < AbstractMinLen
    \/ Contains(abstract, "Volume")
    \/ Contains(abstract, "Issue")
    \/ Contains(abstract, "EarlyView")
    \/ abstract = NO_ABSTRACT

\* if scraped_abstract is not None
NotNone(scraped_abstract) == scraped_abstract # None

\* if scraped_abstract: neither None nor the empty string
Truthy(scraped_abstract) == scraped_abstract # None /\ scraped_abstract[1] # ""

\* the abstract of the record, from entry.summary and the page behind entry.link
ResolveAbstract(e, pg) ==
    LET abstract == IF e.summary # None THEN e.summary[1] ELSE NO_ABSTRACT
    IN  IF Insufficient(abstract)
        THEN LET scraped_abstract == fetch_full_abstract(pg)
             IN  IF Truthy(scraped_abstract) THEN scraped_abstract[1] ELSE PLACEHOLDER
        ELSE abstract

\* the fields of the record computed from the entry's text and its page
EntryFields(e, pg) ==
    LET abstract == ResolveAbstract(e, pg)
    IN  [Abstract |-> abstract,
         Topics   |-> assign_topics(e.title[1], abstract),
         DOI      |-> extract_doi(e)]

-----------------------------------------------------------------------------
(* Handling of one feed entry (the body of the entries loop). *)

\* datetime.fromtimestamp(mktime(entry.published_parsed)): struct_time to a scalar
MkTime(published_parsed) == published_parsed.day * TicksPerDay + published_parsed.tick

\* the struct_time of an instant
StructTime(t) == [day |-> t \div TicksPerDay, tick |-> t % TicksPerDay]

\* pub_date.strftime("%Y-%m-%d")
StrfTime(pub_date) == pub_date \div TicksPerDay

Columns == {"Journal", "Title", "Link", "Published Date", "Abstract", "Topics", "DOI"}

Article(journal, title, link, date, fields) ==
    ("Journal" :> journal) @@ ("Title" :> title) @@ ("Link" :> link) @@
    ("Published Date" :> date) @@ ("Abstract" :> fields.Abstract) @@
    ("Topics" :> fields.Topics) @@ ("DOI" :> fields.DOI)

\* if pub_date > cutoff_date
InWindowStrict(pub_date, cutoff_date) == pub_date > cutoff_date

\* if pub_date >= cutoff_date
InWindow(pub_date, cutoff_date) == pub_date >= cutoff_date

\* The outcome of the loop body for entry e of the feed of journal: the entry
\* is skipped, appends a record, or raises to the except clause of the source.
\* fields are the entry's EntryFields.
ProcessEntry(e, journal, cutoff_date, fields) ==
    IF e.published_parsed = None THEN [kind |-> "skip", rec |-> None]
    ELSE LET pub_date == MkTime(e.published_parsed[1])
         IN  IF ~InWindow(pub_date, cutoff_date) THEN [kind |-> "skip", rec |-> None]
             ELSE IF e.title = None \/ e.link = None THEN [kind |-> "raise", rec |-> None]
             ELSE [kind |-> "record",
                   rec  |-> Some(Article(journal, e.title[1], e.link[1],
                                         StrfTime(pub_date), fields))]

\* the fallback scraper did not run
NoScrape == [attempted |-> FALSE, request |-> None, result |-> None]

\* entry.summary if hasattr(entry, 'summary') else "No abstract available"
FeedAbstract(e) == IF e.summary # None THEN e.summary[1] ELSE NO_ABSTRACT

\* What the fallback scraper does in the loop body for entry e: attempted when
\* its branch is entered, request the url passed to fetch_full_abstract (None:
\* no call, the branch was not entered or entry.link raised), result what the
\* call returned.  insufficient is Insufficient(FeedAbstract(e)) and
\* scraped_abstract is what fetch_full_abstract gives for the page of the entry.
FallbackScraper(e, cutoff_date, insufficient, scraped_abstract) ==
    IF e.published_parsed = None THEN NoScrape
    ELSE IF ~InWindow(MkTime(e.published_parsed[1]), cutoff_date) THEN NoScrape
    ELSE IF e.title = None THEN NoScrape
    ELSE IF ~insufficient THEN NoScrape
    ELSE IF e.link = None THEN [attempted |-> TRUE, request |-> None, result |-> None]
    ELSE [attempted |-> TRUE, request |-> e.link, result |-> scraped_abstract]

-----------------------------------------------------------------------------
(* pandas.  A DataFrame is a sequence of rows, a row maps each column to   *)
(* a cell, a cell is <<v>> or NaN.  The csv file is a sequence of rows of  *)
(* text: read_csv turns the texts it takes for missing values into NaN     *)
(* and to_csv writes NaN as the empty text.  No cell of the archive reads  *)
(* as a number: the dates stay texts, compared as texts.                   *)

NaN == <<>>

\* the texts read_csv reads as NaN by default
NaValues == {"", "#N/A", "#N/A N/A", "#NA", "-1.#IND", "-1.#QNAN", "-NaN", "-nan",
             "1.#IND", "1.#QNAN", "<NA>", "N/A", "NA", "NULL", "NaN", "None",
             "n/a", "nan", "null"}

\* pd.DataFrame(articles_data)
DataFrame(articles_data) ==
    [i \in 1..Len(articles_data) |-> [c \in Columns |-> <<articles_data[i][c]>>]]

\* pd.read_csv(filename)
ReadCsv(rows) ==
    [i \in 1..Len(rows) |->
        [c \in Columns |->
            IF c # "Published Date" /\ rows[i][c] \in NaValues THEN NaN ELSE <<rows[i][c]>>]]

\* df.to_csv(filename, index=False)
ToCsv(df) ==
    [i \in 1..Len(df) |->
        [c \in Columns |-> IF df[i][c] = NaN THEN "" ELSE df[i][c][1]]]

\* pd.concat([a, b], ignore_index=True)
Concat(a, b) == a \o b

\* the subsequence of df at the positions in keep
RECURSIVE Rows(_, _, _)
Rows(df, keep, i) ==
    IF i > Len(df) THEN <<>>
    ELSE (IF i \in keep THEN <<df[i]>> ELSE <<>>) \o Rows(df, keep, i + 1)

\* df.drop_duplicates(subset=['Link'], keep='first')
DropDuplicatesKeepFirst(df) ==
    Rows(df, {i \in 1..Len(df) : \A j \in 1..(i - 1) : df[j]["Link"] # df[i]["Link"]}, 1)

\* df.drop_duplicates(subset=['Link'], keep='last')
DropDuplicates(df) ==
    Rows(df, {i \in 1..Len(df) : \A j \in (i + 1)..Len(df) : df[j]["Link"] # df[i]["Link"]}, 1)

\* row a may stand before row b in df.sort_values(by="Published Date", ascending=False)
Before(a, b) ==
    \/ b["Published Date"] = NaN
    \/ a["Published Date"] # NaN /\ a["Published Date"][1] >= b["Published Date"][1]

\* df.sort_values(by="Published Date", ascending=True)
SortValuesAscending(df) ==
    {[i \in 1..Len(df) |-> df[p[i]]] : p \in
        {q \in Permutations(1..Len(df)) :
            \A i \in 1..(Len(df) - 1) : Before(df[q[i + 1]], df[q[i]])}}

\* df.sort_values(by="Published Date", ascending=False): quicksort is not
\* stable, rows of equal date come in any order
SortValues(df) ==
    {[i \in 1..Len(df) |-> df[p[i]]] : p \in
        {q \in Permutations(1..Len(df)) :
            \A i \in 1..(Len(df) - 1) : Before(df[q[i]], df[q[i + 1]])}}

-----------------------------------------------------------------------------
(* The merge step of the __main__ block. *)

Absent == [exists |-> FALSE, rows |-> <<>>]
File(rows) == [exists |-> TRUE, rows |-> rows]

\* the baseline left out: final_df = new_articles_df on both paths
CombineNewOnly(arch, new_articles_df) == new_articles_df

\* what the baseline contributes: os.path.exists(filename), read_csv, concat, drop_duplicates
Combine(arch, new_articles_df) ==
    IF arch.exists
    THEN DropDuplicates(Concat(ReadCsv(arch.rows), new_articles_df))
    ELSE new_articles_df

\* the merge without the test of new_articles_df.empty
MergeAlways(arch, articles_data) ==
    {File(ToCsv(final_df)) : final_df \in SortValues(Combine(arch, DataFrame(articles_data)))}

\* the archives the script may leave, from archive arch and the fetched articles_data
Merge(arch, articles_data) ==
    IF articles_data # <<>>
    THEN {File(ToCsv(final_df)) :
              final_df \in SortValues(Combine(arch, DataFrame(articles_data)))}
    ELSE {arch}

-----------------------------------------------------------------------------
(* The world the script runs in: the registry of feeds, and the articles   *)
(* the feeds list.  An article's feed metadata and its page are fixed by   *)
(* its link; a feed may list any article, with or without a publish        *)
(* timestamp, and with or without its title element.                       *)

\* the first two sources of JOURNAL_FEEDS
JOURNAL_FEEDS == <<"Journal of Applied Psychology",
                   "Journal of Occupational Health Psychology">>

EmptyPage == [status |-> "404", meta |-> <<None, None, None, None>>, div |-> None]

Catalogue ==
    << [title |-> Some(""),
        link |-> Some("https://psycnet.apa.org/record/2026-00001-001"),
        summary |-> Some(Rep("Shared leadership in hybrid teams. ", 6)),
        prism_doi |-> None,
        dc_identifier |-> Some("doi:10.1037/apl0001234"),
        id |-> Some("https://psycnet.apa.org/record/2026-00001-001"),
        page |-> EmptyPage],
       [title |-> Some("Supervisor support and burnout"),
        link |-> Some("https://doi.org/10.1037/ocp0000399/"),
        summary |-> None,
        prism_doi |-> None,
        dc_identifier |-> None,
        id |-> Some("ocp-2026-399"),
        page |-> [status |-> "200",
                  meta |-> <<None, Some(Rep("Exhaustion at work. ", 6)), None, None>>,
                  div |-> None]] >>

\* the feed entry of catalogue article a, as a feed lists it
FeedEntry(a, published_parsed, hasTitle) ==
    [title |-> IF hasTitle THEN Catalogue[a].title ELSE None,
     link |-> Catalogue[a].link,
     summary |-> Catalogue[a].summary,
     published_parsed |-> published_parsed,
     prism_doi |-> Catalogue[a].prism_doi,
     dc_identifier |-> Catalogue[a].dc_identifier,
     id |-> Catalogue[a].id]

\* EntryFields of each catalogue article, computed once
CatalogueFields ==
    << EntryFields(FeedEntry(1, None, TRUE), Catalogue[1].page),
       EntryFields(FeedEntry(2, None, TRUE), Catalogue[2].page) >>

FieldsOf(e) ==
    CatalogueFields[CHOOSE a \in 1..Len(Catalogue) : Catalogue[a].link = e.link]

\* for each catalogue article, whether its feed abstract is insufficient and
\* what fetch_full_abstract gives for its page, computed once
CatalogueScrapes ==
    [a \in 1..Len(Catalogue) |->
        [insufficient |-> Insufficient(FeedAbstract(FeedEntry(a, None, TRUE))),
         scraped_abstract |-> fetch_full_abstract(Catalogue[a].page)]]

ScrapeOf(e) ==
    CatalogueScrapes[CHOOSE a \in 1..Len(Catalogue) : Catalogue[a].link = e.link]

\* the publish timestamps a feed may give, around the cutoff
PublishTimes(cutoff_date) ==
    {None, Some(StructTime(cutoff_date - 1)), Some(StructTime(cutoff_date)),
     Some(StructTime(cutoff_date + TicksPerDay))}

-----------------------------------------------------------------------------
(* The script, run MaxCycles times. *)

Init ==
    /\ now = (DaysBack + 1) * TicksPerDay + 1
    /\ cycle = 1
    /\ pc = "start"
    /\ src = 1
    /\ nEntries = 0
    /\ cutoff = 0
    /\ entry = None
    /\ outcome = "none"
    /\ failed = {}
    /\ batch = <<>>
    /\ archive = Absent
    /\ before = Absent
    /\ page = EmptyPage
    /\ doi = None
    /\ fallback = NoScrape

\* fetch_recent_articles is entered: articles_data = [], cutoff_date = now - days_back
StartFetch ==
    /\ pc = "start"
    /\ pc' = "feed"
    /\ src' = 1
    /\ nEntries' = 0
    /\ cutoff' = now - DaysBack * TicksPerDay
    /\ entry' = None
    /\ outcome' = "none"
    /\ failed' = {}
    /\ batch' = <<>>
    /\ UNCHANGED <<now, cycle, archive, before, page, doi, fallback>>

\* feedparser.parse(url) returns the feed of the next source
ParseFeed ==
    /\ pc = "feed"
    /\ src <= Len(JOURNAL_FEEDS)
    /\ pc' = "entries"
    /\ UNCHANGED <<now, cycle, src, nEntries, cutoff, entry, outcome, failed,
                   batch, archive, before, page, doi, fallback>>

\* feedparser.parse(url) raises: the except clause, then the next source
ParseRaises ==
    /\ pc = "feed"
    /\ src <= Len(JOURNAL_FEEDS)
    /\ failed' = failed \cup {src}
    /\ src' = src + 1
    /\ UNCHANGED <<now, cycle, pc, nEntries, cutoff, entry, outcome,
                   batch, archive, before, page, doi, fallback>>

\* the entries loop delivers the next entry of the feed
NextEntry ==
    /\ pc = "entries"
    /\ nEntries < MaxEntries
    /\ \E a \in 1..Len(Catalogue), pp \in PublishTimes(cutoff), hasTitle \in BOOLEAN :
          /\ entry' = Some(FeedEntry(a, pp, hasTitle))
          /\ page' = Catalogue[a].page
    /\ nEntries' = nEntries + 1
    /\ pc' = "handle"
    /\ UNCHANGED <<now, cycle, src, cutoff, outcome, failed, batch, archive, before, doi, fallback>>

\* the body of the entries loop, for the entry delivered
HandleEntry ==
    /\ pc = "handle"
    /\ LET r == ProcessEntry(entry[1], JOURNAL_FEEDS[src], cutoff, FieldsOf(entry[1]))
       IN  /\ outcome' = r.kind
           /\ entry' = None
           /\ page' = EmptyPage
           /\ batch' = batch \o r.rec
           /\ fallback' = FallbackScraper(entry[1], cutoff, ScrapeOf(entry[1]).insufficient,
                                          ScrapeOf(entry[1]).scraped_abstract)
           /\ IF r.kind = "raise"
              THEN /\ failed' = failed \cup {src}
                   /\ src' = src + 1
                   /\ pc' = "feed"
              ELSE /\ pc' = "entries"
                   /\ UNCHANGED <<src, failed>>
    /\ UNCHANGED <<now, cycle, nEntries, cutoff, archive, before, doi>>

\* the feed has no more entries: the next source
EndOfFeed ==
    /\ pc = "entries"
    /\ src' = src + 1
    /\ pc' = "feed"
    /\ UNCHANGED <<now, cycle, nEntries, cutoff, entry, outcome, failed,
                   batch, archive, before, page, doi, fallback>>

\* every source is done: fetch_recent_articles returns the DataFrame and its
\* locals are gone
Return ==
    /\ pc = "feed"
    /\ src > Len(JOURNAL_FEEDS)
    /\ pc' = "main"
    /\ nEntries' = 0
    /\ entry' = None
    /\ outcome' = "none"
    /\ failed' = {}
    /\ page' = EmptyPage
    /\ fallback' = NoScrape
    /\ UNCHANGED <<now, cycle, src, cutoff, batch, archive, before, doi>>

\* the merge step of __main__: merge and write, or report that nothing is new
MergeStep ==
    /\ pc = "main"
    /\ before' = archive
    /\ archive' \in Merge(archive, batch)
    /\ pc' = "done"
    /\ UNCHANGED <<now, cycle, src, nEntries, cutoff, entry, outcome, failed,
                   batch, page, doi, fallback>>

\* the script is run again, a day later
NextCycle ==
    /\ pc = "done"
    /\ cycle < MaxCycles
    /\ cycle' = cycle + 1
    /\ now' = now + TicksPerDay
    /\ pc' = "start"
    /\ batch' = <<>>
    /\ before' = Absent
    /\ UNCHANGED <<src, nEntries, cutoff, entry, outcome, failed, archive, page, doi, fallback>>

Next ==
    \/ StartFetch
    \/ ParseFeed
    \/ ParseRaises
    \/ NextEntry
    \/ HandleEntry
    \/ EndOfFeed
    \/ Return
    \/ MergeStep
    \/ NextCycle

Spec == Init /\ [][Next]_vars

-----------------------------------------------------------------------------
(* extract_doi on its own: one call on an entry drawn from DoiEntries. *)

DoiEntries ==
    [title : {None},
     summary : {None},
     published_parsed : {None},
     prism_doi : {None, Some("10.1002/job.2700")},
     dc_identifier : {None, Some("doi:10.1037/x"), Some("urn:doi:10.1037/x"),
                      Some("10.1037/x"), Some("urn:issn:0021-9010")},
     link : {None, Some("https://psycnet.apa.org/record/2026-00001-001"),
             Some("https://doi.org/10.1037/apl0001234"),
             Some("https://doi.org/10.1037/apl0001234//")},
     id : {None, Some("tag:10.123/short"), Some("info:doi/10.1177/01492063.2026?ai=1")}]

InitDoi ==
    /\ now = 0
    /\ cycle = 1
    /\ pc = "extract_doi"
    /\ src = 1
    /\ nEntries = 0
    /\ cutoff = 0
    /\ entry \in {Some(e) : e \in DoiEntries}
    /\ outcome = "none"
    /\ failed = {}
    /\ batch = <<>>
    /\ archive = Absent
    /\ before = Absent
    /\ page = EmptyPage
    /\ doi = None
    /\ fallback = NoScrape

\* doi = extract_doi(entry)
ExtractDoi ==
    /\ pc = "extract_doi"
    /\ doi' = Some(extract_doi(entry[1]))
    /\ pc' = "returned"
    /\ UNCHANGED <<now, cycle, src, nEntries, cutoff, entry, outcome, failed,
                   batch, archive, before, page, fallback>>

SpecDoi == InitDoi /\ [][ExtractDoi]_vars

-----------------------------------------------------------------------------
(* The loop body on its own: one in-window entry, with any feed abstract   *)
(* and any page behind its link (for a feed abstract that is long and has  *)
(* no trigger word, a selection of the pages; for an entry without title   *)
(* or without link, one page).                                             *)

\* the content of a meta tag: none, one at the length gate, one of text past
\* the gate (with blanks around it)
MetaContents(name) ==
    {None,
     Some(Rep("x", MetaMinLen)),
     Some(" " \o name \o ": " \o Rep("burnout ", MetaMinLen \div 8 + 1))}

\* a content of blanks past the length gate
BlankContent == Some(Rep(" ", MetaMinLen + 1))

DivTexts == {None, Some(""), Some(" \n "), Some("\n Abstract: leaders and teams. ")}

Pages ==
    {[status |-> "exception", meta |-> <<None, None, None, None>>, div |-> None],
     [status |-> "404", meta |-> <<Some(Rep("y", MetaMinLen + 1)), None, None, None>>,
      div |-> Some("Not found")]}
    \cup
    {[status |-> "200", meta |-> <<m1, m2, m3, m4>>, div |-> d] :
        m1 \in MetaContents("citation_abstract") \cup {BlankContent}, m2 \in MetaContents("dc.description"),
        m3 \in MetaContents("og:description"), m4 \in MetaContents("description"),
        d \in DivTexts}

\* entry.summary: absent, empty, short, long, long and blank, long with a trigger word
Summaries ==
    {None,
     Some(""),
     Some(Rep("s", AbstractMinLen - 1)),
     Some(Rep("s", AbstractMinLen)),
     Some(Rep(" ", AbstractMinLen)),
     Some("Volume 111, Issue 2. " \o Rep("s", AbstractMinLen))}

InitAbstract ==
    /\ now = (DaysBack + 1) * TicksPerDay
    /\ cycle = 1
    /\ pc = "handle"
    /\ src = 1
    /\ nEntries = 1
    /\ cutoff = TicksPerDay
    /\ page \in Pages
    /\ \E summary \in Summaries, hasTitle \in BOOLEAN, hasLink \in BOOLEAN :
          /\ IF ~(hasTitle /\ hasLink) THEN page.status = "404"
             ELSE IF summary = None THEN TRUE
             ELSE IF Len(summary[1]) < AbstractMinLen THEN TRUE
             ELSE IF Contains(summary[1], "Volume") THEN TRUE
             ELSE IF page.status = "exception" THEN TRUE
             ELSE page.meta[1] \in MetaContents("citation_abstract") \ {None}
                  /\ page.div = None
          /\ entry = Some([title |-> IF hasTitle THEN Some("Supervisor support and burnout")
                                   ELSE None,
                        link |-> IF hasLink THEN Some("https://doi.org/10.1037/ocp0000399/")
                                 ELSE None,
                        summary |-> summary,
                        published_parsed |-> Some(StructTime(TicksPerDay)),
                        prism_doi |-> None,
                        dc_identifier |-> None,
                        id |-> None])
    /\ outcome = "none"
    /\ failed = {}
    /\ batch = <<>>
    /\ archive = Absent
    /\ before = Absent
    /\ doi = None
    /\ fallback = NoScrape

\* the body of the entries loop on the entry, fetch_full_abstract reading page
HandleEntryOnPage ==
    /\ pc = "handle"
    /\ LET r == ProcessEntry(entry[1], JOURNAL_FEEDS[src], cutoff,
                             EntryFields(entry[1], page))
       IN  /\ outcome' = r.kind
           /\ batch' = batch \o r.rec
    /\ fallback' = FallbackScraper(entry[1], cutoff, Insufficient(FeedAbstract(entry[1])),
                                   fetch_full_abstract(page))
    /\ pc' = "entries"
    /\ UNCHANGED <<now, cycle, src, nEntries, cutoff, entry, failed,
                   archive, before, page, doi>>

SpecAbstract == InitAbstract /\ [][HandleEntryOnPage]_vars

-----------------------------------------------------------------------------
(* Properties of the archive merge, checked under Spec.  In a state with   *)
(* pc = "done" the merge step has run on the archive `before` and the      *)
(* fetched batch; it wrote the archive if and only if batch is not empty.  *)

Wrote == pc = "done" /\ batch # <<>>

LinksOf(rows) == {rows[i]["Link"] : i \in 1..Len(rows)}

RowSet(rows) == {rows[i] : i \in 1..Len(rows)}

UniqueLinks(rows) ==
    \A i, j \in 1..Len(rows) : i # j => rows[i]["Link"] # rows[j]["Link"]

\* the position of the last record of the batch with Link x
LastWithLink(x) ==
    CHOOSE k \in 1..Len(batch) :
        /\ batch[k]["Link"] = x
        /\ \A m \in (k + 1)..Len(batch) : batch[m]["Link"] # x

\* C1: after every merge-write no two rows of the archive share a Link,
\* whatever the archive was before and whatever the batch, a batch with two
\* records of the same Link included.
C1_UniqueLinkAfterMerge == Wrote => UniqueLinks(archive.rows)

\* C2: when the archive before the merge and the batch both hold Link X, the
\* archive written holds exactly one row with Link X, and every field of that
\* row is the field of the last record with Link X in the batch.
C2_MergeOverride ==
    (Wrote /\ before.exists) =>
        \A x \in LinksOf(before.rows) \cap LinksOf(batch) :
            /\ Cardinality({i \in 1..Len(archive.rows) : archive.rows[i]["Link"] = x}) = 1
            /\ \A i \in 1..Len(archive.rows) :
                  archive.rows[i]["Link"] = x =>
                      \A c \in Columns : archive.rows[i][c] = batch[LastWithLink(x)][c]

\* a merge over a baseline row of Link X, by a batch with two differing records
\* of Link X of which the last differs from the baseline row
C2_Witness ==
    /\ Wrote
    /\ before.exists
    /\ \E b \in 1..Len(before.rows), i, j \in 1..Len(batch) :
          /\ i < j
          /\ batch[i]["Link"] = batch[j]["Link"]
          /\ before.rows[b]["Link"] = batch[j]["Link"]
          /\ batch[i]["Published Date"] # batch[j]["Published Date"]
          /\ before.rows[b]["Published Date"] # batch[j]["Published Date"]
          /\ before.rows[b]["Published Date"] = batch[i]["Published Date"]

\* C3: running the merge step a second time with the same batch leaves the
\* archive the first run left: the same set of rows, no two rows with the same
\* Link.
C3_MergeIdempotent ==
    Wrote =>
        \A again \in Merge(archive, batch) :
            /\ RowSet(again.rows) = RowSet(archive.rows)
            /\ UniqueLinks(again.rows)
            /\ UniqueLinks(archive.rows)

\* C4: with an empty batch the merge step leaves the archive as it was: an
\* existing archive keeps its rows, an absent archive stays absent.
C4_EmptyBatchLeavesArchive == (pc = "done" /\ batch = <<>>) => archive = before

\* a merge step with an empty batch over an absent archive
C4_Witness == pc = "done" /\ batch = <<>> /\ ~before.exists /\ ~archive.exists

\* a merge step with an empty batch over an archive of several rows
C4_WitnessExisting ==
    pc = "done" /\ batch = <<>> /\ before.exists /\ Len(archive.rows) > 1

\* C5: after every merge-write the rows of the archive are in non-increasing
\* order of Published Date, on the first run and over an existing archive.
C5_SortedByDateDescending ==
    Wrote =>
        \A i \in 1..(Len(archive.rows) - 1) :
            archive.rows[i]["Published Date"] >= archive.rows[i + 1]["Published Date"]

\* a first run whose batch came in increasing order of date
C5_Witness ==
    /\ Wrote
    /\ ~before.exists
    /\ Len(batch) >= 2
    /\ batch[1]["Published Date"] < batch[2]["Published Date"]

\* a merge over an existing archive whose newest row is older than a fetched record
C5_WitnessExisting ==
    /\ Wrote
    /\ before.exists
    /\ Len(before.rows) >= 1
    /\ \E i \in 1..Len(batch) :
          /\ batch[i]["Published Date"] > before.rows[1]["Published Date"]
          /\ batch[i]["Link"] \notin LinksOf(before.rows)

\* C6: every Link of the archive before a merge step is a Link of the archive
\* after it, in the batch or not, inside the lookback window or not.
C6_NoArticleLost == pc = "done" => LinksOf(before.rows) \subseteq LinksOf(archive.rows)

\* a merge-write that keeps a row whose Link is not in the batch and whose date
\* is before the day of the cutoff
C6_Witness ==
    /\ Wrote
    /\ \E b \in 1..Len(before.rows) :
          /\ before.rows[b]["Link"] \notin LinksOf(batch)
          /\ before.rows[b]["Published Date"] < StrfTime(cutoff)
          /\ before.rows[b]["Link"] \in LinksOf(archive.rows)

-----------------------------------------------------------------------------
(* Properties of fetch_recent_articles, checked under Spec. *)

\* C7: a source whose processing raised contributes no record to the batch.
C7_FailedSourceContributesNothing ==
    \A j \in failed : \A i \in 1..Len(batch) : batch[i]["Journal"] # JOURNAL_FEEDS[j]

HasTimestamp(e) == e.published_parsed # None

OnOrAfterCutoff(e) == HasTimestamp(e) /\ MkTime(e.published_parsed[1]) >= cutoff

\* C8, as claimed: the entry handled yields a record if and only if it has a
\* publish timestamp on or after the cutoff.
C8_RecordIffInWindow ==
    [][pc = "handle" =>
          (OnOrAfterCutoff(entry[1]) <=> Len(batch') = Len(batch) + 1)]_vars

\* C8, amended: the entry handled yields a record if and only if it has a
\* publish timestamp on or after the cutoff and carries a title and a link;
\* the record is appended to the batch with the entry's link and date.  An
\* entry with no timestamp or one before the cutoff is skipped: nothing is
\* raised, the batch is as it was and the loop goes on with the next entry.
C8_DateCutoff ==
    [][pc = "handle" =>
          LET e == entry[1]
              complete == e.title # None /\ e.link # None
          IN  /\ (OnOrAfterCutoff(e) /\ complete) <=>
                     (outcome' = "record" /\ Len(batch') = Len(batch) + 1)
              /\ outcome' = "record" =>
                     /\ SubSeq(batch', 1, Len(batch)) = batch
                     /\ batch'[Len(batch')]["Link"] = e.link[1]
                     /\ batch'[Len(batch')]["Published Date"] =
                            StrfTime(MkTime(e.published_parsed[1]))
              /\ ~OnOrAfterCutoff(e) =>
                     /\ outcome' = "skip"
                     /\ batch' = batch
                     /\ pc' = "entries"
                     /\ failed' = failed
                     /\ src' = src]_vars

\* the first source delivered two entries, none raised, and exactly one yielded
\* a record: the one dated on the day of the cutoff, which a timestamp before
\* the cutoff cannot yield
C8_Witness ==
    /\ pc = "entries"
    /\ src = 1
    /\ nEntries = 2
    /\ failed = {}
    /\ Len(batch) = 1
    /\ batch[1]["Published Date"] = StrfTime(cutoff)

-----------------------------------------------------------------------------
(* extract_doi, checked under SpecDoi. *)

StartsWith(s, prefix) == SubSeq(s, 1, Min(Len(prefix), Len(s))) = prefix

\* s without a leading "doi:" or "urn:doi:"
WithoutDoiPrefix(s) ==
    IF StartsWith(s, "urn:doi:") THEN SubSeq(s, Len("urn:doi:") + 1, Len(s))
    ELSE IF StartsWith(s, "doi:") THEN SubSeq(s, Len("doi:") + 1, Len(s))
    ELSE s

\* C9: the result is prism_doi when present; else dc_identifier without its
\* leading "doi:" or "urn:doi:" when it is present and contains "10."; else the
\* first match of the DOI pattern in link and id, trailing "/" removed; else
\* "DOI Not Found".
C9_DoiResolutionOrder ==
    pc = "returned" =>
        LET e == entry[1]
            first == DoiSearch(GetOr(e.link, "") \o " " \o GetOr(e.id, ""))
        IN  doi[1] =
                IF e.prism_doi # None THEN e.prism_doi[1]
                ELSE IF e.dc_identifier # None /\ Contains(e.dc_identifier[1], "10.")
                THEN WithoutDoiPrefix(e.dc_identifier[1])
                ELSE IF first # None THEN RStripSet(first[1], {"/"})
                ELSE "DOI Not Found"

-----------------------------------------------------------------------------
(* The abstract of an emitted record, checked under SpecAbstract. *)

Blank(text) == text = None \/ Strip(text[1]) = ""

\* the scrape gives no usable text: the request or the parse raises, the status
\* is not 200, or every candidate is missing, fails its gate or is blank
NoUsableText(pg) ==
    \/ pg.status # "200"
    \/ /\ \A i \in 1..Len(pg.meta) :
              pg.meta[i] = None \/ Len(pg.meta[i][1]) <= MetaMinLen \/ Blank(pg.meta[i])
       /\ Blank(pg.div)

\* the feed abstract is insufficient: absent, shorter than 200 characters
\* (empty included), or with one of the trigger words
FeedAbstractLacking(e) ==
    IF e.summary = None THEN TRUE
    ELSE \/ Len(e.summary[1]) < 200
         \/ \E w \in {"Volume", "Issue", "EarlyView"} : Contains(e.summary[1], w)
         \/ e.summary[1] = "No abstract available"

\* C10: the Abstract of an emitted record is never empty, and it is the
\* placeholder when the feed abstract is insufficient and the scrape gives no
\* usable text.
C10_AbstractNeverEmpty ==
    (pc = "entries" /\ outcome = "record") =>
        /\ batch[Len(batch)]["Abstract"] # ""
        /\ (FeedAbstractLacking(entry[1]) /\ NoUsableText(page)) =>
               batch[Len(batch)]["Abstract"] = PLACEHOLDER

\* a record for an entry without summary whose page has a citation_abstract
\* content of blanks that passes the length gate
C10_Witness ==
    /\ pc = "entries"
    /\ outcome = "record"
    /\ entry[1].summary = None
    /\ page.status = "200"
    /\ page.meta[1] = BlankContent
    /\ page.div # None
    /\ batch[Len(batch)]["Abstract"] = PLACEHOLDER

-----------------------------------------------------------------------------
(* The fallback scraper and fetch_full_abstract, checked under             *)
(* SpecAbstract.  In a state with pc = "entries" the loop body has run on  *)
(* the entry; the entry is in the window, and its handling reaches the     *)
(* condition of the fallback scraper when it carries a title.              *)

ReachedGate == pc = "entries" /\ entry[1].title # None

\* C11: for an entry whose handling reaches the abstract gate, the page-scrape
\* fallback is attempted if and only if the feed abstract is shorter than 200
\* characters, or contains "Volume", "Issue" or "EarlyView", or is "No abstract
\* available" (the value of an entry without summary); with a link on the
\* entry the attempt is a call of fetch_full_abstract on that link; otherwise
\* no call is made and the Abstract of the record is the feed abstract
\* unchanged.
C11_InsufficiencyGate ==
    ReachedGate =>
        /\ fallback.attempted <=> FeedAbstractLacking(entry[1])
        /\ entry[1].link # None =>
               (fallback.request = entry[1].link <=> FeedAbstractLacking(entry[1]))
        /\ ~FeedAbstractLacking(entry[1]) =>
               /\ fallback = NoScrape
               /\ outcome = "record" =>
                      batch[Len(batch)]["Abstract"] = entry[1].summary[1]

\* a feed abstract of exactly 200 characters without trigger word is kept,
\* although the page behind the link offers a citation_abstract
C11_Witness ==
    /\ pc = "entries"
    /\ outcome = "record"
    /\ entry[1].summary = Some(Rep("s", 200))
    /\ page.status = "200"
    /\ MetaPasses(page.meta[1])
    /\ fallback = NoScrape
    /\ batch[Len(batch)]["Abstract"] = Rep("s", 200)

\* a feed abstract of 199 characters without trigger word is replaced by the
\* text scraped from the page behind the link
C11_WitnessShort ==
    /\ pc = "entries"
    /\ outcome = "record"
    /\ entry[1].summary = Some(Rep("s", 199))
    /\ fallback.request = entry[1].link
    /\ fallback.result # None
    /\ batch[Len(batch)]["Abstract"] = fallback.result[1]
    /\ batch[Len(batch)]["Abstract"] # Rep("s", 199)

\* a long feed abstract with a trigger word is scraped over
C11_WitnessTrigger ==
    /\ pc = "entries"
    /\ outcome = "record"
    /\ entry[1].summary # None
    /\ Len(entry[1].summary[1]) >= 200
    /\ fallback.request = entry[1].link

\* an entry without link whose feed abstract is insufficient: the branch is
\* entered, entry.link raises and no call is made
C11_WitnessNoLink ==
    /\ pc = "entries"
    /\ outcome = "raise"
    /\ entry[1].title # None
    /\ entry[1].link = None
    /\ fallback.attempted
    /\ fallback.request = None

\* fetch_full_abstract was called on the page behind the entry's link
Scraped == pc = "entries" /\ fallback.request # None

\* the candidates of a page in priority order: the content of the
\* citation_abstract, dc.description, og:description and description meta
\* tags, then the text of the first div, section or p of class "abstract"
Candidates(pg) == pg.meta \o <<pg.div>>

\* candidate i of the page is there and passes its gate: longer than 100
\* characters for a meta content, none for the element
PassesGate(pg, i) ==
    /\ Candidates(pg)[i] # None
    /\ i <= 4 => Len(Candidates(pg)[i][1]) > 100

\* C12: on a page of status 200 fetch_full_abstract returns the text (blanks
\* around it removed) of the first candidate, in the order citation_abstract,
\* dc.description, og:description, description, abstract element, that passes
\* its gate, so a candidate is returned only when every candidate before it
\* is absent or fails its gate; on another status, on an exception, or when
\* no candidate passes it returns the null result, and the loop body goes on
\* to its record: nothing is raised to the caller.
C12_ScrapePriorityOrder ==
    Scraped =>
        /\ \A i \in 1..5 :
               ( /\ page.status = "200"
                 /\ PassesGate(page, i)
                 /\ \A j \in 1..(i - 1) : ~PassesGate(page, j) )
               => fallback.result = Some(Strip(Candidates(page)[i][1]))
        /\ (page.status # "200" \/ \A i \in 1..5 : ~PassesGate(page, i))
               => fallback.result = None
        /\ outcome = "record"

\* citation_abstract at the length gate and dc.description missing: the
\* og:description content is returned, before description and the element
C12_Witness ==
    /\ Scraped
    /\ page.status = "200"
    /\ page.meta[1] # None
    /\ ~PassesGate(page, 1)
    /\ page.meta[2] = None
    /\ PassesGate(page, 3)
    /\ PassesGate(page, 4)
    /\ PassesGate(page, 5)
    /\ fallback.result = Some(Strip(page.meta[3][1]))
    /\ fallback.result # Some(Strip(page.meta[4][1]))
    /\ fallback.result # Some(Strip(page.div[1]))

\* no meta content passes the gate: the text of the element is returned
C12_WitnessElement ==
    /\ Scraped
    /\ page.status = "200"
    /\ page.meta[1] # None
    /\ \A i \in 1..4 : ~PassesGate(page, i)
    /\ fallback.result = Some("Abstract: leaders and teams.")

\* the request raises: the null result, and the record carries the placeholder
C12_WitnessException ==
    /\ Scraped
    /\ page.status = "exception"
    /\ fallback.result = None
    /\ outcome = "record"
    /\ batch[Len(batch)]["Abstract"] = PLACEHOLDER

\* a status other than 200 with candidates on the page: the null result
C12_WitnessNot200 ==
    /\ Scraped
    /\ page.status = "404"
    /\ page.div # None
    /\ fallback.result = None

====
